---- MODULE Spec2Model ----
(***************************************************************************)
(* The routing trie of src/router/trie-router/node.ts (class Node: insert, *)
(* #getHandlerSets, search) and the AWS Lambda adapter of                  *)
(* src/unnamed/part_000 (handle, streamHandle, EventProcessor).            *)
(*                                                                         *)
(* Representation of the trie.  A Node object is named by the sequence of  *)
(* child keys that leads to it from the root (the root is <<>>), so        *)
(* node.#children[k] is the node Append(node, k) whenever k is in          *)
(* children[node].  A HandlerSet object is named by its score, which       *)
(* insert makes unique.  Object fields are functions over these names:     *)
(*   children[n]  the keys of n.#children                                  *)
(*   patterns[n]  n.#patterns, in push order                               *)
(*   methods[n]   n.#methods, in push order; each entry is one method map  *)
(*                with its single key                                      *)
(*   order        root.#order                                              *)
(*   nparams[n]   n.#params                                                *)
(*   hparams[s]   the params field search writes on the HandlerSet with    *)
(*                score s                                                  *)
(* A parameter map is a function from names to values; emptyParams is the  *)
(* function with the empty domain.  Every map the code builds besides      *)
(* emptyParams has a key set before it is compared (lines 169, 175), so    *)
(* the identity test "=== emptyParams" is the test for the empty domain.   *)
(***************************************************************************)
EXTENDS Naturals, Sequences, FiniteSets, TLC

VARIABLES children, patterns, methods, order, nparams, hparams,
          calls, catalog, requests,
          ev, apc, areq, aout

trieVars == <<children, patterns, methods, order, nparams, hparams>>
adapterVars == <<ev, apc, areq, aout>>
vars == <<children, patterns, methods, order, nparams, hparams,
          calls, catalog, requests, ev, apc, areq, aout>>

\* Number of insert calls explored on one trie.
MaxInserts == 2

\* ------------------------------------------------------------------------
\* Values

\* node.ts:2  METHOD_NAME_ALL
METHOD_NAME_ALL == "ALL"

\* The JavaScript value undefined, also the property key it coerces to.
Undef == "undefined"

\* node.ts:16  const emptyParams = Object.create(null)
emptyParams == <<>>

\* An absent optional argument (params? of #getHandlerSets) or object field.
Absent == [absent |-> TRUE]

Root == <<>>

\* ------------------------------------------------------------------------
\* utils/url collaborators (not under src/): splitPath, splitRoutingPath,
\* getPattern.  A path is held as the result of path.split('/'): the path
\* "/a/b" is <<"", "a", "b">>, "/" is <<"", "">>.

\* splitPath: split on '/', drop a leading empty piece.
splitPath(path) ==
  IF Len(path) > 0 /\ path[1] = "" THEN Tail(path) ELSE path

\* splitRoutingPath: as splitPath, a {regex} group staying inside its segment.
splitRoutingPath(path) == splitPath(path)

\* The wildcard pattern: getPattern('*') is the string '*', whose [1] is
\* undefined (node.ts:53, 63 read pattern[1] of it; node.ts:149 tests it).
Star == [key |-> "*", name |-> Undef, matcher |-> "*"]

\* label |-> [key, name, matcher] of the named-parameter labels in use;
\* matcher "true" is the unconstrained matcher, any other the regex source.
ParamLabels ==
  [l \in {":x", ":y", ":id", ":n{[0-9]+}", ":path{.+}",
          ":filename{[a-z0-9/]+\\.js}"} |->
     CASE l = ":x"  -> [key |-> l, name |-> "x",  matcher |-> "true"]
       [] l = ":y"  -> [key |-> l, name |-> "y",  matcher |-> "true"]
       [] l = ":id" -> [key |-> l, name |-> "id", matcher |-> "true"]
       [] l = ":n{[0-9]+}" -> [key |-> l, name |-> "n", matcher |-> "[0-9]+"]
       [] l = ":path{.+}" -> [key |-> l, name |-> "path", matcher |-> ".+"]
       [] OTHER -> [key |-> l, name |-> "filename",
                    matcher |-> "[a-z0-9/]+\\.js"]]

NoPattern == [key |-> "", name |-> "", matcher |-> "null"]

\* getPattern(label): '*' for the wildcard, [label, name, matcher] for
\* ':name' and ':name{regex}', null otherwise.
getPattern(label) ==
  IF label = "*" THEN Star
  ELSE IF label \in DOMAIN ParamLabels THEN ParamLabels[label]
  ELSE NoPattern

\* Segment texts by character class, over the texts the requests use.
DigitSegs == {"1", "2", "42"}
AlnumSegs == {"a", "b", "c", "js", "chunk", "1", "2", "42", ""}
JsFileSegs == {"123.js", "a.js"}

\* Mutant of Join: the current segment alone stands for the joined remainder.
Join_FirstOnly(parts) == IF Len(parts) = 0 THEN "" ELSE parts[1]

\* parts.join('/')
RECURSIVE Join(_)
Join(parts) ==
  IF Len(parts) = 0 THEN ""
  ELSE IF Len(parts) = 1 THEN parts[1]
  ELSE parts[1] \o "/" \o Join(Tail(parts))

\* new RegExp('^' + source + '$').test(Join(parts)), decided on the pieces.
RegExpTest(matcher, parts) ==
  CASE matcher = "[0-9]+" ->
         Len(parts) = 1 /\ parts[1] \in DigitSegs
    [] matcher = "[a-z0-9/]+\\.js" ->
         /\ Len(parts) >= 1
         /\ parts[Len(parts)] \in JsFileSegs
         /\ \A i \in 1..(Len(parts) - 1) : parts[i] \in AlnumSegs
    [] matcher = ".+" ->
         /\ Len(parts) >= 1
         /\ ~(Len(parts) = 1 /\ parts[1] = "")
    [] OTHER -> FALSE

\* ------------------------------------------------------------------------
\* Node.insert (node.ts:37-80)

\* new Node(): no children, no patterns, no method maps, #params emptyParams.
\* One iteration of the for loop at node.ts:46-66, then the rest of the loop.
\* t = [children, patterns, nparams, methods], curNode the node reached,
\* possibleKeys the names pushed so far.
RECURSIVE insertLoop(_, _, _, _, _)

\* Mutant of insertLoop: the pattern of a segment is pushed onto the node's
\* pattern list also when the child exists already.
insertLoop_Repush(t, parts, i, curNode, possibleKeys) ==
  IF i > Len(parts) THEN [t |-> t, curNode |-> curNode, possibleKeys |-> possibleKeys]
  ELSE
    LET p == parts[i]
        pattern == getPattern(p)
        child == Append(curNode, p)
        keys == IF pattern # NoPattern THEN Append(possibleKeys, pattern.name)
                ELSE possibleKeys
        pushed == IF pattern # NoPattern
                  THEN [t.patterns EXCEPT ![curNode] = Append(@, pattern)]
                  ELSE t.patterns
    IN IF p \in t.children[curNode]
       THEN insertLoop([t EXCEPT !.patterns = pushed], parts, i + 1, child, keys)
       ELSE insertLoop([children |-> (child :> {}) @@
                                     [t.children EXCEPT ![curNode] = @ \cup {p}],
                        patterns |-> (child :> <<>>) @@ pushed,
                        methods  |-> (child :> <<>>) @@ t.methods,
                        nparams  |-> (child :> emptyParams) @@ t.nparams],
                       parts, i + 1, child, keys)

insertLoop(t, parts, i, curNode, possibleKeys) ==
  IF i > Len(parts) THEN [t |-> t, curNode |-> curNode, possibleKeys |-> possibleKeys]
  ELSE
    LET p == parts[i]
        pattern == getPattern(p)
        child == Append(curNode, p)
        keys == IF pattern # NoPattern THEN Append(possibleKeys, pattern.name)
                ELSE possibleKeys
    IN IF p \in t.children[curNode]
       THEN insertLoop(t, parts, i + 1, child, keys)
       ELSE
         LET t2 == [children |-> (child :> {}) @@
                                 [t.children EXCEPT ![curNode] = @ \cup {p}],
                    patterns |-> (child :> <<>>) @@
                                 (IF pattern # NoPattern
                                  THEN [t.patterns EXCEPT ![curNode] = Append(@, pattern)]
                                  ELSE t.patterns),
                    methods  |-> (child :> <<>>) @@ t.methods,
                    nparams  |-> (child :> emptyParams) @@ t.nparams]
         IN insertLoop(t2, parts, i + 1, child, keys)

\* possibleKeys.filter((v, i, a) => a.indexOf(v) === i)
RECURSIVE dedupe(_)
dedupe(s) ==
  IF Len(s) = 0 THEN <<>>
  ELSE LET front == dedupe(SubSeq(s, 1, Len(s) - 1))
           v == s[Len(s)]
       IN IF \E j \in 1..(Len(s) - 1) : s[j] = v THEN front ELSE Append(front, v)

\* The trie after root.insert(method, path, handler).
insert(t, ord, method, path, handler) ==
  LET walked == insertLoop(t, splitRoutingPath(path), 1, Root, <<>>)
      handlerSet == [method |-> method, handler |-> handler,
                     possibleKeys |-> dedupe(walked.possibleKeys),
                     score |-> ord + 1]
  IN [children |-> walked.t.children,
      patterns |-> walked.t.patterns,
      nparams  |-> walked.t.nparams,
      methods  |-> [walked.t.methods EXCEPT ![walked.curNode] = Append(@, handlerSet)],
      order    |-> ord + 1]


\* ------------------------------------------------------------------------
\* Node.#getHandlerSets (node.ts:82-108)

\* obj?.[key]: undefined for an absent object or an absent key.
Lookup(obj, key) ==
  IF obj = Absent THEN Undef
  ELSE IF key \in DOMAIN obj THEN obj[key] ELSE Undef

\* JavaScript truthiness of a parameter value.
Truthy(v) == v # Undef /\ v # ""

\* node.ts:100-101, for the idx-th name of possibleKeys: processedSet is
\* created per method map and set after the first name, so processed holds
\* for idx > 1.
resolveKey(key, idx, nodeParams, params) ==
  IF Truthy(Lookup(params, key)) /\ idx = 1 THEN Lookup(params, key)
  ELSE IF Lookup(nodeParams, key) # Undef THEN Lookup(nodeParams, key)
  ELSE Lookup(params, key)

\* The params object lines 94-104 leave on the handler set.
resolveParams(possibleKeys, nodeParams, params) ==
  IF nodeParams # emptyParams \/ (params # Absent /\ params # emptyParams)
  THEN [key \in {possibleKeys[i] : i \in 1..Len(possibleKeys)} |->
          resolveKey(key, CHOOSE i \in 1..Len(possibleKeys) : possibleKeys[i] = key,
                     nodeParams, params)]
  ELSE emptyParams

\* Mutant of methodHit: no fallback to the ALL-methods key.
methodHit_NoFallback(m, method) == m.method = method

\* m[method] || m[METHOD_NAME_ALL] on a method map with the one key m.method.
methodHit(m, method) == m.method = method \/ m.method = METHOD_NAME_ALL

\* Mutant of getHandlerSetsLoop: the loop ends at the first method map that
\* answers the method.
getHandlerSetsLoop_FirstHit(ms, i, method, nodeParams, params, acc) ==
  LET hits == { k \in i..Len(ms) :
                  ms[k].method = method \/ ms[k].method = METHOD_NAME_ALL }
  IN IF hits = {} THEN acc
     ELSE LET m == ms[CHOOSE k \in hits : \A k2 \in hits : k <= k2]
          IN [hp   |-> [acc.hp EXCEPT ![m.score] =
                          resolveParams(m.possibleKeys, nodeParams, params)],
              sets |-> Append(acc.sets, m)]

\* The loop at node.ts:89-106 from index i on.  acc = [hp, sets]: the handler
\* sets' params fields and the handler sets pushed so far.
RECURSIVE getHandlerSetsLoop(_, _, _, _, _, _)
getHandlerSetsLoop(ms, i, method, nodeParams, params, acc) ==
  IF i > Len(ms) THEN acc
  ELSE
    LET m == ms[i]
    IN IF methodHit(m, method)
       THEN getHandlerSetsLoop(ms, i + 1, method, nodeParams, params,
              [hp   |-> [acc.hp EXCEPT ![m.score] =
                           resolveParams(m.possibleKeys, nodeParams, params)],
               sets |-> Append(acc.sets, m)])
       ELSE getHandlerSetsLoop(ms, i + 1, method, nodeParams, params, acc)

\* Mutant of pushHandlerSets: the collected sets replace handlerSets instead
\* of being pushed onto it.
pushHandlerSets_Assign(st, ms, method, nodeParams, params) ==
  LET got == getHandlerSetsLoop(ms, 1, method, nodeParams, params,
                                [hp |-> st.hp, sets |-> <<>>])
  IN [st EXCEPT !.hp = got.hp, !.hs = got.sets]

\* st = [np, hp, hs, temp]: the nodes' #params, the handler sets' params,
\* search's handlerSets and tempNodes.  handlerSets.push(...getHandlerSets()).
pushHandlerSets(st, ms, method, nodeParams, params) ==
  LET got == getHandlerSetsLoop(ms, 1, method, nodeParams, params,
                                [hp |-> st.hp, sets |-> <<>>])
  IN [st EXCEPT !.hp = got.hp, !.hs = st.hs \o got.sets]

\* ------------------------------------------------------------------------
\* Node.search (node.ts:110-201)

isRegExp(matcher) == matcher # "true" /\ matcher # "*"

\* params[name] = value on a fresh copy of node.#params (node.ts:145).
withParam(inherited, name, value) ==
  (name :> value) @@ inherited

\* One iteration of the pattern loop (node.ts:144-187), for the frontier
\* node `node`, its pattern `pattern` and segment i of parts.
patternStep(st, ch, ms, node, pattern, method, parts, i) ==
  LET part == parts[i]
      isLast == i = Len(parts)
      rest == SubSeq(parts, i, Len(parts))
      astNode == Append(node, "*")
      child == Append(node, pattern.key)
  IN IF pattern = Star
     THEN IF "*" \in ch[node]
          THEN [pushHandlerSets(st, ms[astNode], method, st.np[node], Absent)
                 EXCEPT !.temp = Append(@, astNode)]
          ELSE st
     ELSE IF part = "" THEN st
     ELSE IF isRegExp(pattern.matcher) /\ RegExpTest(pattern.matcher, rest)
     THEN pushHandlerSets(st, ms[child], method, st.np[node],
                          withParam(st.np[node], pattern.name, Join(rest)))
     ELSE IF pattern.matcher = "true" \/ RegExpTest(pattern.matcher, <<part>>)
     THEN LET params == withParam(st.np[node], pattern.name, part)
          IN IF isLast
             THEN LET s1 == pushHandlerSets(st, ms[child], method, params, st.np[node])
                  IN IF "*" \in ch[child]
                     THEN pushHandlerSets(s1, ms[Append(child, "*")], method,
                                          params, st.np[node])
                     ELSE s1
             ELSE [st EXCEPT !.np[child] = params, !.temp = Append(@, child)]
     ELSE st

\* The pattern loop at node.ts:143-188 from index k on.
RECURSIVE patternLoop(_, _, _, _, _, _, _, _, _)
patternLoop(st, ch, pt, ms, node, k, method, parts, i) ==
  IF k > Len(pt[node]) THEN st
  ELSE patternLoop(patternStep(st, ch, ms, node, pt[node][k], method, parts, i),
                   ch, pt, ms, node, k + 1, method, parts, i)

\* Mutant of literalStep: no probe of the literal child's '*' child.
literalStep_NoRelax(st, ch, ms, node, method, parts, i) ==
  LET part == parts[i]
      nextNode == Append(node, part)
  IN IF part \in ch[node]
     THEN LET s1 == [st EXCEPT !.np[nextNode] = st.np[node]]
          IN IF i = Len(parts)
             THEN pushHandlerSets(s1, ms[nextNode], method, s1.np[node], Absent)
             ELSE [s1 EXCEPT !.temp = Append(@, nextNode)]
     ELSE st

\* Mutant of literalStep: the handler sets are collected with the child's own
\* #params, read before the parent's are copied onto it.
literalStep_LateParams(st, ch, ms, node, method, parts, i) ==
  LET part == parts[i]
      nextNode == Append(node, part)
  IN IF part \in ch[node]
     THEN LET s1 == [st EXCEPT !.np[nextNode] = st.np[node]]
          IN IF i = Len(parts)
             THEN LET s2 == IF "*" \in ch[nextNode]
                            THEN pushHandlerSets(s1, ms[Append(nextNode, "*")],
                                                 method, st.np[nextNode], Absent)
                            ELSE s1
                  IN pushHandlerSets(s2, ms[nextNode], method, st.np[nextNode], Absent)
             ELSE [s1 EXCEPT !.temp = Append(@, nextNode)]
     ELSE st

\* The literal child of a frontier node (node.ts:126-141).
literalStep(st, ch, ms, node, method, parts, i) ==
  LET part == parts[i]
      isLast == i = Len(parts)
      nextNode == Append(node, part)
  IN IF part \in ch[node]
     THEN LET s1 == [st EXCEPT !.np[nextNode] = st.np[node]]
          IN IF isLast
             THEN LET s2 == IF "*" \in ch[nextNode]
                            THEN pushHandlerSets(s1, ms[Append(nextNode, "*")],
                                                 method, s1.np[node], Absent)
                            ELSE s1
                  IN pushHandlerSets(s2, ms[nextNode], method, s2.np[node], Absent)
             ELSE [s1 EXCEPT !.temp = Append(@, nextNode)]
     ELSE st

\* The frontier loop at node.ts:124-189 from index j on.
RECURSIVE nodeLoop(_, _, _, _, _, _, _, _, _)
nodeLoop(st, ch, pt, ms, curNodes, j, method, parts, i) ==
  IF j > Len(curNodes) THEN st
  ELSE
    LET node == curNodes[j]
        s0 == literalStep(st, ch, ms, node, method, parts, i)
        s3 == patternLoop(s0, ch, pt, ms, node, 1, method, parts, i)
    IN nodeLoop(s3, ch, pt, ms, curNodes, j + 1, method, parts, i)

\* handlerSets.sort((a, b) => a.score - b.score): a stable sort.
RECURSIVE sortByScore(_)
sortByScore(hs) ==
  IF Len(hs) <= 1 THEN hs
  ELSE LET front == sortByScore(SubSeq(hs, 1, Len(hs) - 1))
           x == hs[Len(hs)]
           n == Cardinality({q \in 1..Len(front) : front[q].score <= x.score})
       IN SubSeq(front, 1, n) \o <<x>> \o SubSeq(front, n + 1, Len(front))

\* Mutant of searchReturn: the handler sets are returned as collected.
searchReturn_NoSort(hs, hp) ==
  [q \in 1..Len(hs) |-> [handler |-> hs[q].handler, params |-> hp[hs[q].score]]]

\* node.ts:194-200: sort, then pair each handler with the params object its
\* handler set holds at that moment.
searchReturn(hs, hp) ==
  LET sorted == IF Len(hs) > 1 THEN sortByScore(hs) ELSE hs
  IN [q \in 1..Len(sorted) |->
        [handler |-> sorted[q].handler, params |-> hp[sorted[q].score]]]


\* ------------------------------------------------------------------------
\* Callers.  calls[c] is caller c's search call: idle, running with the
\* locals of search (parts, i, curNodes, handlerSets), or done with the
\* sequence search returned.

Callers == {"s1", "s2"}

Idle == [pc |-> "idle", method |-> "", path |-> <<>>, parts |-> <<>>, i |-> 0,
         curNodes |-> <<>>, handlerSets |-> <<>>, result |-> <<>>]

\* Routes and requests.  Paths are absolute, as the framework hands them on.
Methods == {"GET", "POST", METHOD_NAME_ALL}

P(a) == <<"">> \o a

GeneralRoutes ==
  { [method |-> m, path |-> p] :
      m \in {"GET", METHOD_NAME_ALL},
      p \in { P(<<"a">>), P(<<"a", "b">>), P(<<"a", ":x">>), P(<<"a", "*">>),
              P(<<":x", "b">>), P(<<"*">>) } }

GeneralRequests ==
  { [method |-> "GET", path |-> p] :
      p \in { P(<<"a">>), P(<<"a", "b">>), P(<<"a", "1">>), P(<<"1", "b">>),
              P(<<"a", "*">>), P(<<"a", "">>) } }
  \cup
  { [method |-> "POST", path |-> p] : p \in { P(<<"a", "b">>), P(<<"a", "1">>) } }
  \cup
  { [method |-> METHOD_NAME_ALL, path |-> P(<<"a">>)] }

TrieInit ==
  /\ children = (Root :> {})
  /\ patterns = (Root :> <<>>)
  /\ methods = (Root :> <<>>)
  /\ nparams = (Root :> emptyParams)
  /\ hparams = <<>>
  /\ order = 0
  /\ calls = [c \in Callers |-> Idle]

AdapterIdle ==
  /\ ev = Absent
  /\ apc = "idle"
  /\ areq = Absent
  /\ aout = Absent

Init ==
  /\ TrieInit
  /\ AdapterIdle
  /\ catalog = GeneralRoutes
  /\ requests = GeneralRequests

\* root.insert(method, path, handler) in the build phase: the framework
\* registers every route before it serves a request.  The handler is a fresh
\* one, <<"h", k>> for the k-th insert call.
Insert ==
  /\ order < MaxInserts
  /\ \A c \in Callers : calls[c].pc = "idle"
  /\ \E r \in catalog :
       LET t == insert([children |-> children, patterns |-> patterns,
                        methods |-> methods, nparams |-> nparams],
                       order, r.method, r.path, <<"h", Len(hparams) + 1>>)
       IN /\ children' = t.children
          /\ patterns' = t.patterns
          /\ methods' = t.methods
          /\ nparams' = t.nparams
          /\ order' = t.order
          /\ hparams' = Append(hparams, Absent)
  /\ UNCHANGED <<calls, catalog, requests, ev, apc, areq, aout>>

\* node.ts:111-117: the call's locals, and this.#params = emptyParams.
searchBegin(np, method, path) ==
  [np |-> [np EXCEPT ![Root] = emptyParams],
   call |-> [pc |-> "run", method |-> method, path |-> path,
             parts |-> splitPath(path), i |-> 1,
             curNodes |-> <<Root>>, handlerSets |-> <<>>, result |-> <<>>]]

\* One iteration of the loop at node.ts:119-192 for segment call.i, and the
\* return (node.ts:194-200) when it was the last: x = [np, hp, call].
searchStep(x) ==
  IF x.call.i > Len(x.call.parts)
  THEN [x EXCEPT !.call.pc = "done",
                 !.call.result = searchReturn(x.call.handlerSets, x.hp)]
  ELSE
    LET st == nodeLoop([np |-> x.np, hp |-> x.hp, hs |-> x.call.handlerSets,
                        temp |-> <<>>],
                       children, patterns, methods, x.call.curNodes, 1,
                       x.call.method, x.call.parts, x.call.i)
        last == x.call.i = Len(x.call.parts)
    IN [np |-> st.np, hp |-> st.hp,
        call |-> [x.call EXCEPT !.i = @ + 1, !.curNodes = st.temp,
                                !.handlerSets = st.hs,
                                !.pc = IF last THEN "done" ELSE "run",
                                !.result = IF last THEN searchReturn(st.hs, st.hp)
                                           ELSE <<>>]]

RECURSIVE searchRun(_)
searchRun(x) == IF x.call.pc = "done" THEN x ELSE searchRun(searchStep(x))

\* search(method, path) run from call to return.
search(np, hp, method, path) ==
  LET b == searchBegin(np, method, path)
  IN searchRun([np |-> b.np, hp |-> hp, call |-> b.call])

\* A whole search call by caller s1, nothing else running.
Search ==
  /\ \A c \in Callers : calls[c].pc # "run"
  /\ \E q \in requests :
       LET x == search(nparams, hparams, q.method, q.path)
       IN /\ nparams' = x.np
          /\ hparams' = x.hp
          /\ calls' = [calls EXCEPT !["s1"] = x.call]
  /\ UNCHANGED <<children, patterns, methods, order, catalog, requests,
                 ev, apc, areq, aout>>

Next == Insert \/ Search

Spec == Init /\ [][Next]_vars


\* ------------------------------------------------------------------------
\* Vocabulary of the properties

Done(c) == calls[c].pc = "done"

\* The (handler, params) pairs and the handlers a finished call returned.
Returned(c) == { calls[c].result[q] : q \in 1..Len(calls[c].result) }
ReturnedHandlers(c) == { e.handler : e \in Returned(c) }

\* The registrations: <<n, i>> is the i-th method map of node n.
Regs == UNION { { <<n, i>> : i \in 1..Len(methods[n]) } : n \in DOMAIN methods }
Reg(r) == methods[r[1]][r[2]]

\* A route (the key path of its node) with literal segments only.
Literal(n) == \A k \in 1..Len(n) : getPattern(n[k]) = NoPattern

\* A registration under `method` answers a search for `m`.
Answers(method, m) == method = m \/ method = METHOD_NAME_ALL

\* Segment-by-segment match of a request against a route of literal,
\* unconstrained-parameter and wildcard segments, as section 3 of the
\* specification words it: equal text, or any non-empty text.
SegMatches(n, parts) ==
  /\ Len(n) = Len(parts)
  /\ \A k \in 1..Len(n) :
       LET pat == getPattern(n[k])
       IN IF pat = NoPattern THEN parts[k] = n[k]
          ELSE (pat = Star \/ pat.matcher = "true") /\ parts[k] # ""

HasWildcard(n) == \E k \in 1..Len(n) : n[k] = "*"

\* The bindings such a match makes, for a route whose names are distinct.
Bindings(n, parts) ==
  LET ks == { k \in 1..Len(n) : getPattern(n[k]) # NoPattern }
  IN [name \in { getPattern(n[k]).name : k \in ks } |->
        parts[CHOOSE k \in ks : getPattern(n[k]).name = name]]

\* ------------------------------------------------------------------------
\* C1: after any inserts, the search of a registered literal path under the
\* registration's method returns that handler with an empty parameter map,
\* whatever parameter and wildcard routes share its prefix.
C1_LiteralRouteFound ==
  \A c \in Callers :
    Done(c) =>
      LET n == calls[c].parts
      IN (n \in DOMAIN methods /\ Literal(n)) =>
           \A i \in 1..Len(methods[n]) :
             methods[n][i].method = calls[c].method =>
               [handler |-> methods[n][i].handler, params |-> emptyParams]
                 \in Returned(c)

\* C1 witness: a literal registration found next to a parameter route that
\* matched the same request.
C1_Witness ==
  \E c \in Callers :
    /\ Done(c)
    /\ calls[c].parts \in DOMAIN methods
    /\ Literal(calls[c].parts)
    /\ \E i \in 1..Len(methods[calls[c].parts]) :
         /\ methods[calls[c].parts][i].method = calls[c].method
         /\ [handler |-> methods[calls[c].parts][i].handler, params |-> emptyParams]
              \in Returned(c)
    /\ \E e \in Returned(c) : e.params # emptyParams

\* C2: scores follow registration order (the k-th insert's handler set has
\* score k, so later inserts have strictly greater scores), and a search
\* result lists its pairs in registration order.
C2_RegistrationOrder ==
  /\ \A r \in Regs : Reg(r).score = Reg(r).handler[2] /\ Reg(r).score \in 1..order
  /\ \A r1, r2 \in Regs : r1 # r2 => Reg(r1).score # Reg(r2).score
  /\ \A c \in Callers :
       Done(c) =>
         \A p, q \in 1..Len(calls[c].result) :
           p < q => calls[c].result[p].handler[2] <= calls[c].result[q].handler[2]

\* C2 witness: a result of an ALL and a concrete registration that were
\* collected in the opposite order.
C2_Witness ==
  \E c \in Callers :
    /\ Done(c)
    /\ Len(calls[c].result) >= 2
    /\ calls[c].result[1].handler # calls[c].result[2].handler
    /\ \E p, q \in 1..Len(calls[c].handlerSets) :
         /\ p < q
         /\ calls[c].handlerSets[p].score > calls[c].handlerSets[q].score
         /\ calls[c].handlerSets[p].method # calls[c].handlerSets[q].method

\* C3: no first-match-wins exit.  Every registration whose route matches the
\* request segment by segment is returned (with the bindings of that match,
\* for a route without wildcard); two registrations of the same method and
\* path are returned together with the same bindings.
C3_AllMatchesReturned ==
  \A c \in Callers :
    Done(c) =>
      /\ \A r \in Regs :
           (Answers(Reg(r).method, calls[c].method) /\ SegMatches(r[1], calls[c].parts))
             => IF HasWildcard(r[1])
                THEN Reg(r).handler \in ReturnedHandlers(c)
                ELSE [handler |-> Reg(r).handler,
                      params |-> Bindings(r[1], calls[c].parts)] \in Returned(c)
      /\ \A r1, r2 \in Regs :
           (r1[1] = r2[1] /\ Reg(r1).method = Reg(r2).method)
             => { e.params : e \in { x \in Returned(c) : x.handler = Reg(r1).handler } }
                = { e.params : e \in { x \in Returned(c) : x.handler = Reg(r2).handler } }

\* C3 witness: routes /a/:x then /a/b, request /a/b: both returned, the
\* parameter route with x = "b", the literal route with no parameter.
C3_Witness ==
  \E c \in Callers :
    /\ Done(c)
    /\ calls[c].parts = <<"a", "b">>
    /\ <<"a", "b">> \in DOMAIN methods
    /\ \E e1, e2 \in Returned(c) :
         /\ e1.params = ("x" :> "b")
         /\ e2.params = emptyParams
         /\ e1.handler[2] < e2.handler[2]
         /\ \E i \in 1..Len(methods[<<"a", "b">>]) :
              methods[<<"a", "b">>][i].handler = e2.handler

\* C4: a registration under ALL is returned for any request method when its
\* path matches; a registration under a concrete method is never returned to
\* a search for another method.
C4_MethodDispatch ==
  \A c \in Callers :
    Done(c) =>
      \A r \in Regs :
        /\ (Reg(r).method = METHOD_NAME_ALL /\ SegMatches(r[1], calls[c].parts))
             => Reg(r).handler \in ReturnedHandlers(c)
        /\ (Reg(r).method # METHOD_NAME_ALL /\ Reg(r).method # calls[c].method)
             => Reg(r).handler \notin ReturnedHandlers(c)

\* C4 witness: a POST search that returns an ALL registration and leaves out
\* a GET registration of a matching path.
C4_Witness ==
  \E c \in Callers :
    /\ Done(c)
    /\ calls[c].method = "POST"
    /\ \E r1, r2 \in Regs :
         /\ Reg(r1).method = METHOD_NAME_ALL
         /\ Reg(r1).handler \in ReturnedHandlers(c)
         /\ Reg(r2).method = "GET"
         /\ SegMatches(r2[1], calls[c].parts)
         /\ Reg(r2).handler \notin ReturnedHandlers(c)

\* C5: trailing-wildcard relaxation.  The search of a literal path P returns
\* the handlers registered for P/* as well as those registered for P.
C5_TrailingWildcard ==
  \A c \in Callers :
    Done(c) =>
      LET n == calls[c].parts
      IN (Literal(n) /\ Append(n, "*") \in DOMAIN methods) =>
           \A r \in Regs :
             (r[1] \in {n, Append(n, "*")} /\ Answers(Reg(r).method, calls[c].method))
               => Reg(r).handler \in ReturnedHandlers(c)

\* C5 witness: /a/* and /a both registered, the search of /a returns both.
C5_Witness ==
  \E c \in Callers :
    /\ Done(c)
    /\ calls[c].parts = <<"a">>
    /\ Len(calls[c].result) = 2
    /\ \E r1, r2 \in Regs :
         /\ r1[1] = <<"a">>
         /\ r2[1] = <<"a", "*">>
         /\ ReturnedHandlers(c) = {Reg(r1).handler, Reg(r2).handler}


\* ------------------------------------------------------------------------
\* Regex routes: the trie over routes with regex-constrained parameters.

FilenameLabel == ":filename{[a-z0-9/]+\\.js}"

RegexRoutes ==
  { [method |-> m, path |-> p] :
      m \in {"GET", METHOD_NAME_ALL},
      p \in { P(<<"js", FilenameLabel>>), P(<<"js", FilenameLabel, ":y">>),
              P(<<"js", ":x", ":y">>), P(<<":n{[0-9]+}", FilenameLabel>>) } }

RegexRequests ==
  { [method |-> "GET", path |-> p] :
      p \in { P(<<"js", "chunk", "123.js">>), P(<<"js", "123.js">>),
              P(<<"js", "a.js", "b">>), P(<<"js", "chunk", "b">>),
              P(<<"42", "chunk", "123.js">>), P(<<"42", "a.js">>) } }
  \cup
  { [method |-> "POST", path |-> P(<<"js", "chunk", "123.js">>)] }

InitRegex ==
  /\ TrieInit
  /\ AdapterIdle
  /\ catalog = RegexRoutes
  /\ requests = RegexRequests

SpecRegex == InitRegex /\ [][Next]_vars

\* The request reaches node n over its first Len(n) segments: literal text,
\* an unconstrained parameter, or a regex parameter whose regex matches the
\* one segment and not the remainder of the path from it.
Reaches(n, parts) ==
  /\ Len(n) <= Len(parts)
  /\ \A k \in 1..Len(n) :
       LET pat == getPattern(n[k])
       IN IF pat = NoPattern THEN parts[k] = n[k]
          ELSE /\ pat # Star
               /\ parts[k] # ""
               /\ \/ pat.matcher = "true"
                  \/ /\ RegExpTest(pat.matcher, <<parts[k]>>)
                     /\ ~RegExpTest(pat.matcher, SubSeq(parts, k, Len(parts)))

\* The bindings made on the way to n.
PrefixBindings(n, parts) ==
  LET ks == { k \in 1..Len(n) : getPattern(n[k]) # NoPattern }
  IN [name \in { getPattern(n[k]).name : k \in ks } |->
        parts[CHOOSE k \in ks : getPattern(n[k]).name = name]]

\* Node n's regex pattern `pat` matches the remainder of the request.
RestMatch(n, pat, parts) ==
  /\ Len(n) < Len(parts)
  /\ Reaches(n, parts)
  /\ pat.key \in children[n]
  /\ isRegExp(pat.matcher)
  /\ RegExpTest(pat.matcher, SubSeq(parts, Len(n) + 1, Len(parts)))

RegexPatterns == { ParamLabels[l] : l \in { x \in DOMAIN ParamLabels : isRegExp(ParamLabels[x].matcher) } }

\* The string parts.join('/') of a remainder of up to three segments,
\* written out.
JoinedText(parts) ==
  CASE Len(parts) = 1 -> parts[1]
    [] Len(parts) = 2 -> parts[1] \o "/" \o parts[2]
    [] OTHER -> parts[1] \o "/" \o parts[2] \o "/" \o parts[3]

\* C6: when a regex parameter's regex matches the '/'-join of the current
\* and all following segments, the handlers at the pattern's child node are
\* returned with the parameter bound to that joined remainder, and the match
\* is terminal: nothing registered below that child is returned.
C6_RestOfPathRegex ==
  \A c \in Callers :
    Done(c) =>
      \A n \in DOMAIN children : \A pat \in RegexPatterns :
        RestMatch(n, pat, calls[c].parts) =>
          LET child == Append(n, pat.key)
              rest == SubSeq(calls[c].parts, Len(n) + 1, Len(calls[c].parts))
          IN \A r \in Regs :
               /\ (r[1] = child /\ Answers(Reg(r).method, calls[c].method))
                    => [handler |-> Reg(r).handler,
                        params |-> (pat.name :> JoinedText(rest))
                                     @@ PrefixBindings(n, calls[c].parts)]
                         \in Returned(c)
               /\ (Len(r[1]) > Len(child) /\ SubSeq(r[1], 1, Len(child)) = child)
                    => Reg(r).handler \notin ReturnedHandlers(c)

\* C6 witness: route /js/:filename{[a-z0-9/]+\.js}, request /js/chunk/123.js,
\* filename = "chunk/123.js", with a route registered below the pattern's
\* child that is not returned.
C6_Witness ==
  \E c \in Callers :
    /\ Done(c)
    /\ calls[c].parts = <<"js", "chunk", "123.js">>
    /\ \E e \in Returned(c) : e.params = ("filename" :> "chunk/123.js")
    /\ <<"js", FilenameLabel, ":y">> \in DOMAIN methods
    /\ Len(methods[<<"js", FilenameLabel, ":y">>]) > 0
    /\ Len(calls[c].result) = 1

\* ------------------------------------------------------------------------
\* Deep wildcard routes: a wildcard below a parameter, with segments after it.

WildRoutes ==
  { [method |-> m, path |-> p] :
      m \in {"GET", METHOD_NAME_ALL},
      p \in { P(<<":x", "*", "c">>), P(<<":x", "*">>), P(<<"a", "*", "c">>),
              P(<<":x", "b", "c">>) } }

WildRequests ==
  { [method |-> "GET", path |-> p] :
      p \in { P(<<"1", "*", "c">>), P(<<"1", "2", "c">>), P(<<"2", "b", "c">>),
              P(<<"a", "*", "c">>), P(<<"a", "2", "c">>), P(<<"1", "*">>) } }

InitWild ==
  /\ TrieInit
  /\ AdapterIdle
  /\ catalog = WildRoutes
  /\ requests = WildRequests

SpecWild == InitWild /\ [][Next]_vars

\* C7: a search repeated with the same method and path, no insert in
\* between, returns the same ordered sequence of pairs as the call before.
C7_Idempotent ==
  [][ \A c \in Callers :
        ( /\ Done(c)
          /\ calls'[c].pc = "done"
          /\ calls'[c].method = calls[c].method
          /\ calls'[c].path = calls[c].path
          /\ methods' = methods )
        => calls'[c].result = calls[c].result ]_vars

\* C7 witness: a finished search of a path through a wildcard whose node
\* holds parameters left by an earlier search, returning bound parameters.
C7_Witness ==
  \E c \in Callers :
    /\ Done(c)
    /\ \E n \in DOMAIN nparams :
         /\ Len(n) > 0
         /\ n[Len(n)] = "*"
         /\ nparams[n] # emptyParams
         /\ calls[c].parts[Len(n)] # "*"
    /\ \E e \in Returned(c) : e.params # emptyParams


\* ------------------------------------------------------------------------
\* Interleaved searches: two callers searching the same trie, each call
\* advancing one segment of its path at a time.

ConcRoutes ==
  { [method |-> "GET", path |-> p] :
      p \in { P(<<":x", "b">>), P(<<"a", ":x">>), P(<<":x", ":y">>) } }

ConcRequests ==
  { [method |-> "GET", path |-> p] :
      p \in { P(<<"1", "b">>), P(<<"2", "b">>), P(<<"a", "1">>) } }

InitConc ==
  /\ TrieInit
  /\ AdapterIdle
  /\ catalog = ConcRoutes
  /\ requests = ConcRequests

\* Caller c enters search (node.ts:111-117).
Begin(c) ==
  /\ calls[c].pc # "run"
  /\ \E q \in requests :
       LET b == searchBegin(nparams, q.method, q.path)
       IN /\ nparams' = b.np
          /\ calls' = [calls EXCEPT ![c] = b.call]
  /\ UNCHANGED <<children, patterns, methods, order, hparams, catalog, requests,
                 ev, apc, areq, aout>>

\* Caller c's search handles its next segment, and returns after the last.
Step(c) ==
  /\ calls[c].pc = "run"
  /\ LET x == searchStep([np |-> nparams, hp |-> hparams, call |-> calls[c]])
     IN /\ nparams' = x.np
        /\ hparams' = x.hp
        /\ calls' = [calls EXCEPT ![c] = x.call]
  /\ UNCHANGED <<children, patterns, methods, order, catalog, requests,
                 ev, apc, areq, aout>>

NextConc ==
  \/ Insert
  \/ \E c \in Callers : Begin(c)
  \/ \E c \in Callers : Step(c)

SpecConc == InitConc /\ [][NextConc]_vars

\* What search(method, path) returns on the present trie when it runs alone,
\* from nodes and handler sets no search has written to.
AloneResult(method, path) ==
  search([n \in DOMAIN nparams |-> emptyParams],
         [k \in 1..Len(hparams) |-> Absent], method, path).call.result

\* C8: with two searches interleaved segment by segment, each call returns
\* what it returns when run alone.
C8_Isolated ==
  \A c \in Callers :
    Done(c) => calls[c].result = AloneResult(calls[c].method, calls[c].path)


\* ------------------------------------------------------------------------
\* The AWS Lambda adapter (src/unnamed/part_000).
\*   ev    the event the host passed, with the exported function in ev.mode
\*   apc   "idle", "fetching" (awaiting app.fetch) or "done"
\*   areq  the Request createRequest built
\*   aout  what the host observes: the promise's settlement, the result or
\*         the response stream
\* An object with insertion-ordered keys (event.headers,
\* event.multiValueHeaders) is the sequence of its <<key, value>> entries.  A
\* Headers object is a function from lower-cased names to the sequence of
\* their values.  An optional object or array is Absent or [entries |-> e];
\* an optional string is Undef or the string.

\* Headers normalises names to lower case.
Lower(k) ==
  CASE k = "Accept" -> "accept"
    [] k = "Cookie" -> "cookie"
    [] OTHER -> k

\* headers.set(k, v)
hset(h, k, v) == (Lower(k) :> <<v>>) @@ h

\* headers.append(k, v)
happend(h, k, v) ==
  IF Lower(k) \in DOMAIN h THEN [h EXCEPT ![Lower(k)] = Append(@, v)]
  ELSE (Lower(k) :> <<v>>) @@ h

\* part_000:329-331 isProxyEventV2
isProxyEventV2(event) == event.rawPath # Undef

\* cookies.join('; ') of up to two cookies.
joinCookies(cookies) ==
  IF Len(cookies) = 0 THEN ""
  ELSE IF Len(cookies) = 1 THEN cookies[1]
  ELSE cookies[1] \o "; " \o cookies[2]

\* part_000:276-280 (v2) and 305-312 (v1) getCookies
getCookies(event, headers) ==
  IF isProxyEventV2(event) /\ event.cookies # Absent
  THEN hset(headers, "Cookie", joinCookies(event.cookies.entries))
  ELSE headers

\* part_000:198-204: headers.set(k, v) for every entry with a truthy value.
RECURSIVE setHeaders(_, _, _)
setHeaders(h, entries, i) ==
  IF i > Len(entries) THEN h
  ELSE setHeaders(IF Truthy(entries[i][2]) THEN hset(h, entries[i][1], entries[i][2])
                  ELSE h,
                  entries, i + 1)

\* values.forEach((v) => headers.append(k, v))
RECURSIVE appendValues(_, _, _, _)
appendValues(h, k, values, j) ==
  IF j > Len(values) THEN h
  ELSE appendValues(happend(h, k, values[j]), k, values, j + 1)

\* part_000:205-211: every value of every multiValueHeaders entry appended.
RECURSIVE appendMultiValueHeaders(_, _, _)
appendMultiValueHeaders(h, entries, i) ==
  IF i > Len(entries) THEN h
  ELSE appendMultiValueHeaders(appendValues(h, entries[i][1], entries[i][2], 1),
                               entries, i + 1)

\* part_000:196-211: the Headers of the request.
requestHeaders(event) ==
  LET h0 == getCookies(event, <<>>)
      h1 == IF event.headers # Absent THEN setHeaders(h0, event.headers.entries, 1) ELSE h0
  IN IF event.multiValueHeaders # Absent
     THEN appendMultiValueHeaders(h1, event.multiValueHeaders.entries, 1)
     ELSE h1

\* part_000:264-270, 290-296: getPath and getMethod of the two processors.
getPath(event) == IF isProxyEventV2(event) THEN event.rawPath ELSE event.path

getMethod(event) ==
  IF isProxyEventV2(event) THEN event.requestContext.http.method
  ELSE event.httpMethod

\* obj?.[key] on an optional object held as its entries.
entryValue(obj, key) ==
  IF obj = Absent THEN Undef
  ELSE IF \E k \in 1..Len(obj.entries) : obj.entries[k][1] = key
  THEN obj.entries[CHOOSE k \in 1..Len(obj.entries) : obj.entries[k][1] = key][2]
  ELSE Undef

\* part_000:188-191 domainName: the request context's, else the host header.
domainName(event) ==
  IF event.requestContext.domainName # Undef THEN event.requestContext.domainName
  ELSE IF entryValue(event.headers, "host") # Undef
  THEN entryValue(event.headers, "host")
  ELSE IF entryValue(event.multiValueHeaders, "host") # Undef
  THEN entryValue(event.multiValueHeaders, "host")[1]
  ELSE Undef

\* new Request(url, init) throws a TypeError for a GET or HEAD with a body.
requestThrows(method, body) == method \in {"GET", "HEAD"} /\ body # Undef

\* part_000:186-224 createRequest: the Request, or the exception thrown.
createRequest(event) ==
  LET body == IF Truthy(event.body) THEN event.body ELSE Undef
  IN IF requestThrows(getMethod(event), body)
     THEN [threw |-> TRUE]
     ELSE [threw |-> FALSE,
           url |-> "https://" \o domainName(event) \o getPath(event),
           method |-> getMethod(event),
           headers |-> requestHeaders(event), body |-> body]

\* part_000:333-337 isContentTypeBinary, on the content types in use.
isContentTypeBinary(contentType) ==
  contentType \notin {"text/plain", "application/json"}

\* part_000:339-344 isContentEncodingBinary
isContentEncodingBinary(contentEncoding) ==
  IF contentEncoding = Undef THEN FALSE
  ELSE contentEncoding \in {"gzip", "deflate", "compress", "br"}

\* get('set-cookie')?.split(', ') on the cookie headers in use.
splitCookies(v) == IF v = "a=1, b=2" THEN <<"a=1", "b=2">> ELSE <<v>>

\* The text of a response body; a null body reads as the empty string.
bodyText(res) == IF res.body # Undef THEN res.body ELSE ""

\* part_000:226-260 createResult with setCookies.  encodeBase64 is the pair
\* <<"base64", text>>.
createResult(event, res) ==
  LET isBase64Encoded ==
        IF res.contentType # Undef /\ isContentTypeBinary(res.contentType) THEN TRUE
        ELSE isContentEncodingBinary(res.contentEncoding)
      cookies == IF res.setCookie # Undef
                 THEN [entries |-> splitCookies(res.setCookie)] ELSE Absent
  IN [statusCode |-> res.status,
      isBase64Encoded |-> isBase64Encoded,
      body |-> IF isBase64Encoded THEN <<"base64", bodyText(res)>>
               ELSE <<"text", bodyText(res)>>,
      headers |-> [contentType |-> res.contentType,
                   contentEncoding |-> res.contentEncoding,
                   setCookie |-> IF cookies # Absent THEN Undef ELSE res.setCookie],
      cookies |-> IF isProxyEventV2(event) THEN cookies ELSE Absent,
      multiValueSetCookie |-> IF isProxyEventV2(event) THEN Absent ELSE cookies]

\* part_000:140-145: the catch and finally blocks of streamHandle.
streamCaught(stream) ==
  [stream EXCEPT !.writes = Append(@, "Internal Server Error"), !.ended = TRUE]

\* part_000:127-139, 144: metadata, body and end of the response stream.
streamResponse(stream, res) ==
  [metadata |-> [statusCode |-> res.status,
                 headers |-> [contentType |-> res.contentType,
                              contentEncoding |-> res.contentEncoding,
                              setCookie |-> res.setCookie]],
   writes |-> Append(stream.writes, bodyText(res)),
   ended |-> TRUE]

NewStream == [metadata |-> Absent, writes |-> <<>>, ended |-> FALSE]

HeaderEntries ==
  { Absent } \cup
  { [entries |-> e] :
      e \in { <<>>, << <<"accept", "a">> >>, << <<"Accept", "b">> >>,
              << <<"accept", "a">>, <<"x-id", "1">> >>, << <<"x-id", "">> >> } }

MultiValueEntries ==
  { Absent } \cup
  { [entries |-> e] :
      e \in { << <<"accept", <<"a">> >> >>, << <<"accept", <<"b", "a">> >> >>,
              << <<"Accept", <<"b">> >> >>,
              << <<"accept", <<"a">> >>, <<"x-id", <<"1", "1">> >> >> } }

\* An API Gateway or ALB event that carries both maps lists the same names
\* in both, and headers holds the last value of each list.
Consistent(h, mv) ==
  \/ h = Absent
  \/ mv = Absent
  \/ /\ Len(h.entries) = Len(mv.entries)
     /\ \A k \in 1..Len(h.entries) :
          /\ h.entries[k][1] = mv.entries[k][1]
          /\ h.entries[k][2] = mv.entries[k][2][Len(mv.entries[k][2])]

Events ==
  { [mode |-> mode, rawPath |-> Undef, path |-> "/a", httpMethod |-> m,
     requestContext |-> [domainName |-> "api.example", http |-> [method |-> Undef]],
     headers |-> hm[1], multiValueHeaders |-> hm[2], cookies |-> Absent,
     body |-> b] :
      mode \in {"handle", "streamHandle"}, m \in {"GET", "POST"},
      hm \in { x \in HeaderEntries \X MultiValueEntries : Consistent(x[1], x[2]) },
      b \in {Undef, "data"} }
  \cup
  { [mode |-> mode, rawPath |-> "/a", path |-> Undef, httpMethod |-> Undef,
     requestContext |-> [domainName |-> "api.example", http |-> [method |-> m]],
     headers |-> h, multiValueHeaders |-> Absent, cookies |-> ck, body |-> b] :
      mode \in {"handle", "streamHandle"}, m \in {"GET", "POST"},
      h \in HeaderEntries \ {Absent}, ck \in {Absent, [entries |-> <<"s=1", "t=2">>]},
      b \in {Undef, "data"} }

Responses ==
  { [status |-> st, contentType |-> ct, contentEncoding |-> ce, setCookie |-> sc,
     body |-> b] :
      b \in {"ok", Undef}, st \in {200, 404}, ct \in {Undef, "text/plain", "image/png"},
      ce \in {Undef, "gzip"}, sc \in {Undef, "a=1, b=2"} }

InitAdapter ==
  /\ TrieInit
  /\ AdapterIdle
  /\ catalog = {}
  /\ requests = {}

\* The host invokes the exported handler with an event: getProcessor and
\* createRequest, up to the await of app.fetch (part_000:115-120, 160-165).
Invoke ==
  /\ apc = "idle"
  /\ \E event \in Events :
       LET req == createRequest(event)
       IN /\ ev' = event
          /\ IF req.threw
             THEN /\ areq' = Absent
                  /\ apc' = "done"
                  /\ aout' = IF event.mode = "handle"
                             THEN [kind |-> "rejected", failed |-> TRUE]
                             ELSE [kind |-> "completed", failed |-> TRUE,
                                   stream |-> streamCaught(NewStream)]
             ELSE /\ areq' = req
                  /\ apc' = "fetching"
                  /\ aout' = Absent
  /\ UNCHANGED <<children, patterns, methods, order, nparams, hparams, calls,
                 catalog, requests>>

\* app.fetch resolves with a Response (part_000:127-139, 171).
FetchResolve ==
  /\ apc = "fetching"
  /\ \E res \in Responses :
       aout' = IF ev.mode = "handle"
               THEN [kind |-> "completed", failed |-> FALSE,
                     result |-> createResult(ev, res)]
               ELSE [kind |-> "completed", failed |-> FALSE,
                     stream |-> streamResponse(NewStream, res)]
  /\ apc' = "done"
  /\ UNCHANGED <<children, patterns, methods, order, nparams, hparams, calls,
                 catalog, requests, ev, areq>>

\* app.fetch rejects (part_000:140-145 in streamHandle; no handler in handle).
FetchReject ==
  /\ apc = "fetching"
  /\ aout' = IF ev.mode = "handle"
             THEN [kind |-> "rejected", failed |-> TRUE]
             ELSE [kind |-> "completed", failed |-> TRUE,
                   stream |-> streamCaught(NewStream)]
  /\ apc' = "done"
  /\ UNCHANGED <<children, patterns, methods, order, nparams, hparams, calls,
                 catalog, requests, ev, areq>>

NextAdapter == Invoke \/ FetchResolve \/ FetchReject

SpecAdapter == InitAdapter /\ [][NextAdapter]_vars

\* C9: in handle and in streamHandle, a failure of createRequest or of
\* app.fetch ends in a generic server-error response, and the promise the
\* host holds is not rejected.
C9_FailureContained ==
  (apc = "done" /\ aout.failed) =>
    /\ aout.kind = "completed"
    /\ "Internal Server Error" \in
         { aout.stream.writes[k] : k \in 1..Len(aout.stream.writes) }

\* The values the event supplies for each (lower-cased) header name: the
\* list of multiValueHeaders when the name is there, else the one value of
\* headers.
EntriesOf(obj) == IF obj = Absent THEN <<>> ELSE obj.entries

EntryNames(obj) == { Lower(EntriesOf(obj)[k][1]) : k \in 1..Len(EntriesOf(obj)) }

EventHeaderValues(event) ==
  [name \in EntryNames(event.multiValueHeaders)
              \cup { Lower(EntriesOf(event.headers)[k][1]) :
                       k \in { j \in 1..Len(EntriesOf(event.headers)) :
                                 EntriesOf(event.headers)[j][2] # "" } } |->
     IF name \in EntryNames(event.multiValueHeaders)
     THEN event.multiValueHeaders.entries[
            CHOOSE k \in 1..Len(event.multiValueHeaders.entries) :
              Lower(event.multiValueHeaders.entries[k][1]) = name][2]
     ELSE << event.headers.entries[
               CHOOSE k \in 1..Len(event.headers.entries) :
                 Lower(event.headers.entries[k][1]) = name][2] >>]

\* C10: the request carries, for every header name, exactly the values the
\* event supplies, each as many times as the event lists it.
C10_HeaderMultiplicity ==
  areq # Absent =>
    \A name \in DOMAIN EventHeaderValues(ev) :
      /\ name \in DOMAIN areq.headers
      /\ areq.headers[name] = EventHeaderValues(ev)[name]

\* ------------------------------------------------------------------------
\* C11: search is read-only on the trie.  A step that is not an insert (the
\* order counter stays) changes no field of any node (children, pattern
\* list, method-map list, order counter, #params) and no field of any
\* handler record (the params field).
C11_SearchReadOnly ==
  [][ order' = order =>
        /\ children' = children
        /\ patterns' = patterns
        /\ methods' = methods
        /\ nparams' = nparams
        /\ hparams' = hparams ]_vars

\* The trie as the inserts left it: no node and no handler record holds a
\* parameter map written by a search.
Unsearched == [np |-> [n \in DOMAIN nparams |-> emptyParams],
               hp |-> [k \in 1..Len(hparams) |-> Absent]]

\* C12: the result of search(method, path) depends on the inserts and its
\* arguments alone: whatever searches ran before it on the trie, a search
\* returns what it returns on the trie as the inserts left it.
C12_HistoryIndependent ==
  \A c \in Callers :
    calls[c].pc = "done" =>
      LET first == search(Unsearched.np, Unsearched.hp,
                          calls[c].method, calls[c].path)
      IN calls[c].result = first.call.result

\* ------------------------------------------------------------------------
\* Routes with a trailing wildcard, requests of one to three segments.

DeepRoutes ==
  { [method |-> m, path |-> p] :
      m \in {"GET", METHOD_NAME_ALL},
      p \in { P(<<"a", "*">>), P(<<"a", "b", "c">>), P(<<"a", "*", "c">>),
              P(<<"*">>), P(<<"a", ":x">>) } }

DeepRequests ==
  { [method |-> "GET", path |-> p] :
      p \in { P(<<"a">>), P(<<"a", "b">>), P(<<"a", "b", "c">>),
              P(<<"a", "1", "c">>), P(<<"b", "c">>), P(<<"b">>),
              P(<<"a", "">>) } }

InitDeep ==
  /\ TrieInit
  /\ AdapterIdle
  /\ catalog = DeepRoutes
  /\ requests = DeepRequests

SpecDeep == InitDeep /\ [][Next]_vars

\* C13: a wildcard consumes exactly one segment.  The handlers registered at
\* a route that ends in a wildcard, P/*, are returned only to a request with
\* as many segments as the route (the wildcard on the last one) or to the
\* bare path P; a request with two or more segments after P gets none.
C13_WildcardOneSegment ==
  \A c \in Callers :
    Done(c) =>
      \A r \in Regs :
        (Len(r[1]) > 0 /\ r[1][Len(r[1])] = "*"
           /\ Len(calls[c].parts) > Len(r[1]))
          => Reg(r).handler \notin ReturnedHandlers(c)

\* C14: an empty request segment is matched by no dynamic pattern.  A
\* returned registration has a literal (empty) key at the position of every
\* empty request segment its route reaches, and no returned parameter is
\* bound to the empty string.
C14_EmptySegmentSkipped ==
  \A c \in Callers :
    Done(c) =>
      /\ \A r \in Regs :
           Reg(r).handler \in ReturnedHandlers(c) =>
             \A k \in 1..Len(calls[c].parts) :
               (calls[c].parts[k] = "" /\ k <= Len(r[1]))
                 => getPattern(r[1][k]) = NoPattern
      /\ \A e \in Returned(c) : \A name \in DOMAIN e.params : e.params[name] # ""

\* A route in which a named parameter comes before a wildcard that has
\* further segments after it.
ParamBeforeWildcard(n) ==
  \E w \in 1..Len(n) :
    /\ n[w] = "*"
    /\ w < Len(n)
    /\ \E k \in 1..(w - 1) : getPattern(n[k]) \notin {NoPattern, Star}

\* C15: parameters survive a wildcard.  On the freshly built trie, the search
\* of a path matching such a route returns the route's handler with every
\* named parameter bound to the request segment it matched.
C15_ParamsSurviveWildcard ==
  \A c \in Callers :
    Done(c) =>
      LET fresh == search(Unsearched.np, Unsearched.hp,
                          calls[c].method, calls[c].path).call.result
      IN \A r \in Regs :
           ( /\ ParamBeforeWildcard(r[1])
             /\ SegMatches(r[1], calls[c].parts)
             /\ Answers(Reg(r).method, calls[c].method) )
             => \E q \in 1..Len(fresh) :
                  /\ fresh[q].handler = Reg(r).handler
                  /\ \A k \in 1..Len(r[1]) :
                       getPattern(r[1][k]) \notin {NoPattern, Star}
                         => /\ getPattern(r[1][k]).name \in DOMAIN fresh[q].params
                            /\ fresh[q].params[getPattern(r[1][k]).name]
                                 = calls[c].parts[k]

\* ------------------------------------------------------------------------
\* Routes that bind one parameter name in two segments.

RepeatRoutes ==
  { [method |-> m, path |-> p] :
      m \in {"GET", METHOD_NAME_ALL},
      p \in { P(<<":id", ":id">>), P(<<":x", ":id", ":id">>),
              P(<<":id", ":x", ":id">>), P(<<":x", ":id">>) } }

RepeatRequests ==
  { [method |-> "GET", path |-> p] :
      p \in { P(<<"1", "2">>), P(<<"2", "1">>), P(<<"1", "2", "a">>),
              P(<<"a", "b", "c">>), P(<<"1", "1">>) } }
  \cup
  { [method |-> "POST", path |-> P(<<"1", "2">>)] }

InitRepeat ==
  /\ TrieInit
  /\ AdapterIdle
  /\ catalog = RepeatRoutes
  /\ requests = RepeatRequests

SpecRepeat == InitRepeat /\ [][Next]_vars

\* The first segment of route n that binds `name`.
FirstBinding(n, name) ==
  CHOOSE k \in 1..Len(n) :
    /\ getPattern(n[k]).name = name
    /\ \A j \in 1..(k - 1) : getPattern(n[j]).name # name

\* C16: first-resolved-wins.  For a matching route of named parameters, the
\* value returned for each name is the text of the earliest segment that
\* binds the name, wherever the name stands among the route's names.
C16_FirstResolvedWins ==
  \A c \in Callers :
    Done(c) =>
      \A r \in Regs :
        ( /\ \A k \in 1..Len(r[1]) : getPattern(r[1][k]) \notin {NoPattern, Star}
          /\ SegMatches(r[1], calls[c].parts)
          /\ Answers(Reg(r).method, calls[c].method) )
          => \E e \in Returned(c) :
               /\ e.handler = Reg(r).handler
               /\ \A k \in 1..Len(r[1]) :
                    LET name == getPattern(r[1][k]).name
                    IN /\ name \in DOMAIN e.params
                       /\ e.params[name] = calls[c].parts[FirstBinding(r[1], name)]

\* ------------------------------------------------------------------------
\* Routes with regex parameters whose regex source holds no '/'.

ClassRoutes ==
  { [method |-> m, path |-> p] :
      m \in {"GET", METHOD_NAME_ALL},
      p \in { P(<<"a", ":path{.+}">>), P(<<"a", ":n{[0-9]+}">>),
              P(<<"a", ":path{.+}", "c">>), P(<<":n{[0-9]+}", "b">>) } }

ClassRequests ==
  { [method |-> "GET", path |-> p] :
      p \in { P(<<"a", "b">>), P(<<"a", "1">>), P(<<"a", "b", "c">>),
              P(<<"a", "1", "c">>), P(<<"1", "b">>), P(<<"a", "">>) } }

InitClass ==
  /\ TrieInit
  /\ AdapterIdle
  /\ catalog = ClassRoutes
  /\ requests = ClassRequests

SpecClass == InitClass /\ [][Next]_vars

\* The regex sources, of those in use, that contain a path separator.
SourceHasSeparator(matcher) == matcher = "[a-z0-9/]+\\.js"

\* C17: a regex parameter whose regex source contains no '/' is a
\* single-segment parameter: the value a result binds to it is the text of
\* one request segment, never a value spanning several.
C17_StaticRegexClass ==
  \A c \in Callers :
    Done(c) =>
      \A r \in Regs : \A e \in Returned(c) :
        e.handler = Reg(r).handler =>
          \A k \in 1..Len(r[1]) :
            LET pat == getPattern(r[1][k])
            IN ( /\ pat \notin {NoPattern, Star}
                 /\ isRegExp(pat.matcher)
                 /\ ~SourceHasSeparator(pat.matcher)
                 /\ pat.name \in DOMAIN e.params )
                 => e.params[pat.name]
                      \in { calls[c].parts[j] : j \in 1..Len(calls[c].parts) }

\* The names of the named-parameter segments of route n, in order, each at
\* its first appearance.
IsNamedParam(seg) == getPattern(seg) \notin {NoPattern, Star}

ParamNames(n) ==
  LET named == SelectSeq(n, IsNamedParam)
  IN dedupe([k \in 1..Len(named) |-> getPattern(named[k]).name])

\* C18: the possibleKeys of every handler record are the parameter names of
\* the path it was inserted with, in order of first appearance and without
\* duplicate; wildcard and literal segments add none, so every key of a
\* returned parameter map is a parameter name of the route it belongs to.
C18_PossibleKeysAreParamNames ==
  /\ \A r \in Regs : Reg(r).possibleKeys = ParamNames(r[1])
  /\ \A c \in Callers :
       Done(c) =>
         \A r \in Regs : \A e \in Returned(c) :
           e.handler = Reg(r).handler =>
             DOMAIN e.params
               \subseteq { ParamNames(r[1])[k] : k \in 1..Len(ParamNames(r[1])) }

\* Each node's pattern list holds each pattern key once, and every pattern
\* in it has a child node under its key.
PatternsWellFormed ==
  \A n \in DOMAIN patterns :
    /\ \A i, j \in 1..Len(patterns[n]) :
         i # j => patterns[n][i].key # patterns[n][j].key
    /\ \A i \in 1..Len(patterns[n]) :
         /\ patterns[n][i].key \in children[n]
         /\ Append(n, patterns[n][i].key) \in DOMAIN children

\* The method maps of node n, none for a node not yet created.
MethodMaps(ms, n) == IF n \in DOMAIN ms THEN ms[n] ELSE <<>>

\* What an insert step does to the trie: one method map, with the new score,
\* appended to one node and every other method-map list left as it was; no
\* node and no pattern added when that node existed already; nodes and
\* handler records stored before are kept unchanged.
InsertEffect ==
  /\ DOMAIN children \subseteq DOMAIN children'
  /\ \E n \in DOMAIN methods' :
       /\ Len(methods'[n]) = Len(MethodMaps(methods, n)) + 1
       /\ SubSeq(methods'[n], 1, Len(methods'[n]) - 1) = MethodMaps(methods, n)
       /\ methods'[n][Len(methods'[n])].score = order'
       /\ \A n2 \in DOMAIN methods' \ {n} : methods'[n2] = MethodMaps(methods, n2)
       /\ n \in DOMAIN children => (children' = children /\ patterns' = patterns)
  /\ SubSeq(hparams', 1, Len(hparams)) = hparams

\* C19: after any inserts the pattern lists are well formed, and every insert
\* appends exactly one method map, to the final node only, creating no node
\* and no pattern when all segments of the path exist already.
C19_TrieStructure ==
  /\ []PatternsWellFormed
  /\ [][order' # order => InsertEffect]_vars

\* C19 witness: a path with a pattern segment inserted twice: its final node
\* holds two method maps and its parent lists the pattern once.
C19_Witness ==
  \E n \in DOMAIN methods :
    /\ Len(methods[n]) = 2
    /\ Len(n) > 0
    /\ getPattern(n[Len(n)]) # NoPattern
    /\ Len(patterns[SubSeq(n, 1, Len(n) - 1)]) = 1

\* C20: within one search result each registration appears at most once,
\* also for a request in which a segment's text equals a pattern key.
C20_NoDuplicateResults ==
  \A c \in Callers :
    Done(c) =>
      \A p, q \in 1..Len(calls[c].result) :
        p # q => calls[c].result[p].handler # calls[c].result[q].handler

====
